---- MODULE Spec2Model ----
(***************************************************************************)
(* A model of snapshot_stream.py: device discovery (find_uvc_device), the  *)
(* signal handler (cleanup), the per-request frame generator (gen_frames)  *)
(* and the /stream route, with one thread per request (threaded=True).     *)
(***************************************************************************)
EXTENDS Integers, Sequences, FiniteSets, TLC

\* ------------------------------------------------------------------ bounds

\* how many /dev/video* nodes the file system may hold
MaxDevs == 3
\* how many cap.read() calls the model follows, over all generators
MaxReads == 2
\* how many SIGINT/SIGTERM deliveries the model follows
MaxSignals == 2
\* the pacing interval 1.0 / args.fps in clock ticks (one tick = 20 ms, fps = 25)
Interval == 2
\* the most bytes between the first and the last marker of an encoder output
MaxScan == 3

\* ------------------------------------------------------- program constants

\* time.sleep(0.1) after a failed read, in clock ticks of 20 ms
RetryPause == 5
\* --quality default
DefaultQuality == 30
\* --buffersize default
BufferSize == 1

\* the /stream requests the model follows, one server thread each
Consumers == {"a", "b"}

\* ---------------------------------------------------------------- devices

\* the numbers N of the nodes /dev/videoN that may exist
DevPool == <<2, 10, 0, 11>>
DevNumbers == {DevPool[i] : i \in 1..MaxDevs}

RECURSIVE Digits(_)
\* the decimal digits of n: the part of "/dev/video<n>" after the common prefix
Digits(n) == IF n < 10 THEN <<n>> ELSE Append(Digits(n \div 10), n % 10)

RECURSIVE LexLess(_, _)
\* Python's str comparison, on the digit strings
LexLess(a, b) ==
    IF a = <<>> THEN b # <<>>
    ELSE IF b = <<>> THEN FALSE
    ELSE IF Head(a) # Head(b) THEN Head(a) < Head(b)
    ELSE LexLess(Tail(a), Tail(b))

\* the comparison sorted() uses on two device numbers' paths
PathLess(m, n) == LexLess(Digits(m), Digits(n))

RECURSIVE Insert(_, _)
Insert(x, s) ==
    IF s = <<>> THEN <<x>>
    ELSE IF PathLess(x, Head(s)) THEN <<x>> \o s
    ELSE <<Head(s)>> \o Insert(x, Tail(s))

RECURSIVE SortedNatural(_)
\* the list in numeric order of the device numbers: not what sorted() on str does
SortedNatural(s) ==
    IF s = <<>> THEN <<>>
    ELSE LET m == CHOOSE i \in 1..Len(s) : \A j \in 1..Len(s) : s[i] <= s[j]
         IN <<s[m]>> \o SortedNatural([k \in 1..Len(s) - 1 |-> IF k < m THEN s[k] ELSE s[k + 1]])

RECURSIVE Sorted(_)
\* sorted(glob.glob("/dev/video*"))
Sorted(s) == IF s = <<>> THEN <<>> ELSE Insert(Head(s), Sorted(Tail(s)))

\* the orders in which glob.glob may list a set of nodes
Listings(S) ==
    {s \in [1..Cardinality(S) -> S] : \A i, j \in 1..Cardinality(S) : i # j => s[i] # s[j]}

\* ------------------------------------------------------------------ state

VARIABLES
    fsDevices,    \* the nodes /dev/video* that exist
    openable,     \* the nodes on which cv2.VideoCapture(dev).isOpened() is true
    mainPc,       \* where the main thread is
    devs,         \* the sorted list find_uvc_device iterates
    idx,          \* position of the loop in devs
    probing,      \* the node of the local cap in find_uvc_device, 0 - 1 when none
    probed,       \* the nodes on which cv2.VideoCapture was constructed, in order
    probeReleased,\* the nodes whose handle find_uvc_device released
    bufferSet,    \* <<node, depth>> for every cap.set(CAP_PROP_BUFFERSIZE, depth)
    cap,          \* the module-level cap: a node, or NoCap
    capOpen,      \* whether the module-level handle is open (not released)
    handlersSet,  \* signal.signal(...) has run
    listening,    \* app.run has bound the listener
    procState,    \* "running", "exit0", "exit1", "killed", "crashed"
    hstack,       \* the nested activations of cleanup in the main thread
    signals,      \* signals delivered so far
    releaseCalls, \* calls of cap.release() on the module-level handle
    sigInRead,    \* a signal was handled while a cap.read() was in flight
    pc,           \* where each consumer's generator is
    frame,        \* the frame the generator holds
    raced,        \* the read in flight overlapped another call on the handle
    nextFrame,    \* the number of the next frame the device delivers
    cycles,       \* per consumer, the loop iterations: read and encode outcomes
    emitted,      \* per consumer, the chunks the generator yielded
    wire,         \* per connection, the bytes written to it
    readsAfterRelease, \* cap.read() calls begun after cap.release() returned
    yieldsAfterRelease,\* chunks yielded after cap.release() returned
    asleep,       \* per consumer, the ticks its generator has spent in time.sleep
    yieldTimes,   \* per consumer, asleep as it was at each yield
    gone,         \* per consumer, its client has closed the connection
    keepHistory,  \* whether the histories the properties read are kept
    quality,      \* args.quality
    deviceLost,   \* the device has failed for good: no read gives a frame any more
    buffer,       \* the framing alone: an output of the encoder, as bytes
    stream,       \* the framing alone: the bytes on a connection
    part          \* the framing alone: what a multipart reader got from stream

discoveryVars == <<fsDevices, openable, devs, idx, probing, probed, probeReleased, bufferSet, cap>>
mainVars == <<mainPc, handlersSet, listening, hstack, signals, releaseCalls, sigInRead>>
timeVars == <<asleep, yieldTimes>>
pumpVars == <<pc, frame, gone, raced, nextFrame, cycles, emitted, wire, readsAfterRelease, yieldsAfterRelease, timeVars>>
framingVars == <<buffer, stream, part>>
fixedVars == <<keepHistory, quality, deviceLost, framingVars>>
vars == <<discoveryVars, mainVars, capOpen, procState, pumpVars, fixedVars>>

NoCap == 0 - 1

\* the process after line 48, on a machine whose device nodes are among pool,
\* started with one of the --quality values given
InitOn(pool, qualities, history) ==
    /\ fsDevices \in SUBSET pool
    /\ quality \in qualities
    /\ keepHistory = history
    /\ deviceLost = FALSE
    /\ gone = [c \in Consumers |-> FALSE]
    /\ openable \in SUBSET fsDevices
    /\ mainPc = "glob"
    /\ devs = <<>>
    /\ idx = 1
    /\ probing = NoCap
    /\ probed = <<>>
    /\ probeReleased = {}
    /\ bufferSet = {}
    /\ cap = NoCap
    /\ capOpen = FALSE
    /\ handlersSet = FALSE
    /\ listening = FALSE
    /\ procState = "running"
    /\ hstack = <<>>
    /\ signals = 0
    /\ releaseCalls = 0
    /\ sigInRead = FALSE
    /\ pc = [c \in Consumers |-> "idle"]
    /\ frame = [c \in Consumers |-> 0]
    /\ raced = [c \in Consumers |-> FALSE]
    /\ nextFrame = 1
    /\ cycles = [c \in Consumers |-> <<>>]
    /\ emitted = [c \in Consumers |-> <<>>]
    /\ wire = [c \in Consumers |-> <<>>]
    /\ readsAfterRelease = 0
    /\ yieldsAfterRelease = 0
    /\ asleep = [c \in Consumers |-> 0]
    /\ yieldTimes = [c \in Consumers |-> <<>>]

\* a machine with at most one device node, which may or may not open
\* what a multipart reader has before it has read a part
NoPart == [type |-> "", payload |-> <<>>]

\* the framing left aside
NoFraming == buffer = <<>> /\ stream = <<>> /\ part = NoPart

Init == InitOn({DevPool[1]}, {DefaultQuality}, TRUE) /\ NoFraming

\* a machine with any of the device nodes, each of which may or may not open
InitFind == InitOn(DevNumbers, {DefaultQuality}, TRUE) /\ NoFraming

\* the main thread runs module-level code only while no handler is active
MainRuns == procState = "running" /\ hstack = <<>>

\* -------------------------------------------------------- find_uvc_device

\* line 61: the list the loop iterates
Glob ==
    /\ MainRuns /\ mainPc = "glob"
    /\ \E listing \in Listings(fsDevices) : devs' = Sorted(listing)
    /\ idx' = 1
    /\ mainPc' = "probe"
    /\ UNCHANGED <<fsDevices, openable, probing, probed, probeReleased, bufferSet, cap>>
    /\ UNCHANGED <<handlersSet, listening, hstack, signals, releaseCalls, sigInRead, capOpen, procState, pumpVars>>
    /\ UNCHANGED fixedVars

\* line 62: cap = cv2.VideoCapture(dev)
ProbeOpen ==
    /\ MainRuns /\ mainPc = "probe" /\ probing = NoCap /\ idx <= Len(devs)
    /\ probing' = devs[idx]
    /\ probed' = Append(probed, devs[idx])
    /\ UNCHANGED <<fsDevices, openable, devs, idx, probeReleased, bufferSet, cap>>
    /\ UNCHANGED <<mainVars, capOpen, procState, pumpVars>>
    /\ UNCHANGED fixedVars

\* lines 63-65 without line 64: the handle of a failed open is left as it is
KeptOnFail(dev) == {}

\* line 64: the handles released when the open of dev has failed
ReleasedOnFail(dev) == {dev}

\* lines 63-65: the open failed: release the handle and go on
ProbeFail ==
    /\ MainRuns /\ mainPc = "probe" /\ probing # NoCap /\ probing \notin openable
    /\ probeReleased' = probeReleased \cup ReleasedOnFail(probing)
    /\ probing' = NoCap
    /\ idx' = idx + 1
    /\ UNCHANGED <<fsDevices, openable, devs, probed, bufferSet, cap>>
    /\ UNCHANGED <<mainVars, capOpen, procState, pumpVars>>
    /\ UNCHANGED fixedVars

\* the node whose session find_uvc_device returns
Returned(dev) == dev

\* lines 66-69 and 73: set the buffer depth, return the handle, bind it to cap
ProbeSucceed ==
    /\ MainRuns /\ mainPc = "probe" /\ probing # NoCap /\ probing \in openable
    /\ bufferSet' = bufferSet \cup {<<probing, BufferSize>>}
    /\ cap' = Returned(probing)
    /\ capOpen' = TRUE
    /\ probing' = NoCap
    /\ mainPc' = "install"
    /\ UNCHANGED <<fsDevices, openable, devs, idx, probed, probeReleased>>
    /\ UNCHANGED <<handlersSet, listening, hstack, signals, releaseCalls, sigInRead, procState, pumpVars>>
    /\ UNCHANGED fixedVars

\* the loop's end without line 71: the function returns and line 73 goes on
AfterLoopFallsThrough == "install"

\* where the main thread goes when the loop ends without a return
AfterLoop == "aborted"

\* line 71: no device opened: RuntimeError ends the process at line 73
ProbeNone ==
    /\ MainRuns /\ mainPc = "probe" /\ probing = NoCap /\ idx > Len(devs)
    /\ mainPc' = AfterLoop
    /\ procState' = IF AfterLoop = "aborted" THEN "exit1" ELSE procState
    /\ UNCHANGED <<discoveryVars, handlersSet, listening, hstack, signals, releaseCalls, sigInRead, capOpen, pumpVars>>
    /\ UNCHANGED fixedVars

\* ----------------------------------------------------------- main thread

\* lines 81-82
InstallHandlers ==
    /\ MainRuns /\ mainPc = "install"
    /\ handlersSet' = TRUE
    /\ mainPc' = "run"
    /\ UNCHANGED <<discoveryVars, listening, hstack, signals, releaseCalls, sigInRead, capOpen, procState, pumpVars>>
    /\ UNCHANGED fixedVars

\* lines 122-124: app.run binds the listener and serves
AppRun ==
    /\ MainRuns /\ mainPc = "run"
    /\ listening' = TRUE
    /\ mainPc' = "serving"
    /\ UNCHANGED <<discoveryVars, handlersSet, hstack, signals, releaseCalls, sigInRead, capOpen, procState, pumpVars>>
    /\ UNCHANGED fixedVars

\* ------------------------------------------------------ signals, cleanup

\* a signal before lines 81-82 ran: the default disposition ends the process
SignalDefault ==
    /\ procState = "running" /\ ~handlersSet /\ signals < MaxSignals
    /\ signals' = signals + 1
    /\ procState' = "killed"
    /\ UNCHANGED <<discoveryVars, mainPc, handlersSet, listening, hstack, releaseCalls, sigInRead, capOpen, pumpVars>>
    /\ UNCHANGED fixedVars

\* whether the main thread is inside the C call cap.release()
Releasing == hstack # <<>> /\ hstack[Len(hstack)] = "releasing"

\* lines 76-77: the interpreter runs cleanup in the main thread, between two
\* bytecodes of whatever the main thread runs, an earlier cleanup included
SignalHandled ==
    /\ procState = "running" /\ handlersSet /\ signals < MaxSignals
    /\ mainPc \in {"run", "serving"}
    /\ ~Releasing
    /\ signals' = signals + 1
    /\ hstack' = Append(hstack, "release")
    /\ sigInRead' = (sigInRead \/ \E c \in Consumers : pc[c] = "reading")
    /\ UNCHANGED <<discoveryVars, mainPc, handlersSet, listening, releaseCalls, capOpen, procState, pumpVars>>
    /\ UNCHANGED fixedVars

Top == hstack[Len(hstack)]
SetTop(v) == [hstack EXCEPT ![Len(hstack)] = v]

\* line 78, the call: nothing orders it with a cap.read() of a server thread
CleanupReleaseCall ==
    /\ procState = "running" /\ hstack # <<>> /\ Top = "release"
    /\ hstack' = SetTop("releasing")
    /\ releaseCalls' = releaseCalls + 1
    /\ raced' = [c \in Consumers |-> raced[c] \/ pc[c] = "reading"]
    /\ UNCHANGED <<discoveryVars, mainPc, handlersSet, listening, signals, sigInRead, capOpen, procState>>
    /\ UNCHANGED <<pc, frame, gone, nextFrame, cycles, emitted, wire, readsAfterRelease, yieldsAfterRelease, timeVars>>
    /\ UNCHANGED fixedVars

\* line 78, the return: the handle is released
CleanupReleaseReturn ==
    /\ procState = "running" /\ hstack # <<>> /\ Top = "releasing"
    /\ hstack' = SetTop("exit")
    /\ capOpen' = FALSE
    /\ UNCHANGED <<discoveryVars, mainPc, handlersSet, listening, signals, releaseCalls, sigInRead, procState, pumpVars>>
    /\ UNCHANGED fixedVars

\* line 79: sys.exit(0) raises SystemExit through every active cleanup and
\* app.run; the main thread ends and the process exits with status 0, the
\* server's request threads being daemon threads
CleanupExit ==
    /\ procState = "running" /\ hstack # <<>> /\ Top = "exit"
    /\ hstack' = <<>>
    /\ mainPc' = "exited"
    /\ procState' = "exit0"
    /\ UNCHANGED <<discoveryVars, handlersSet, listening, signals, releaseCalls, sigInRead, capOpen, pumpVars>>
    /\ UNCHANGED fixedVars

\* the calls in flight on the one VideoCapture object
InHandle == {c \in Consumers : pc[c] = "reading"} \cup (IF Releasing THEN {"main"} ELSE {})

\* two unsynchronized calls on the handle: one outcome is that the process dies
Crash ==
    /\ procState = "running" /\ Cardinality(InHandle) >= 2
    /\ procState' = "crashed"
    /\ UNCHANGED <<discoveryVars, mainVars, capOpen, pumpVars>>
    /\ UNCHANGED fixedVars

\* ------------------------------------------------------------ gen_frames

\* the bytes of buffer.tobytes() for a frame: a JPEG whose content is the frame's
Jpeg(f) == <<"SOI", ToString(f), "EOI">>

\* lines 103-106: the multipart part around the encoder's output
Chunk(buf) == <<"--frame", "\r\n", "Content-Type: image/jpeg", "\r\n", "\r\n">> \o buf \o <<"\r\n">>

\* lines 112-118 and threaded=True: a request is served by its own thread, which
\* iterates gen_frames(); line 87 runs at the first next()
Connect(c) ==
    /\ MainRuns /\ mainPc = "serving" /\ listening
    /\ pc[c] = "idle"
    /\ pc' = [pc EXCEPT ![c] = "read"]
    /\ UNCHANGED <<discoveryVars, mainVars, capOpen, procState>>
    /\ UNCHANGED <<frame, gone, raced, nextFrame, cycles, emitted, wire, readsAfterRelease, yieldsAfterRelease, timeVars>>
    /\ UNCHANGED fixedVars

\* the client of a request closes its connection. Nothing in the program looks
\* at the connection before the write of a chunk, so for what the program does in
\* a finite run a client that leaves earlier is one that leaves at the write
\* (WriteFails); how long a generator goes on after its client has left is
\* followed in SpecLive, where a client leaves at any time
ClientGone(c) ==
    /\ procState = "running" /\ pc[c] \notin {"idle", "closed"} /\ ~gone[c]
    /\ gone' = [gone EXCEPT ![c] = TRUE]
    /\ UNCHANGED <<discoveryVars, mainVars, capOpen, procState>>
    /\ UNCHANGED <<pc, frame, raced, nextFrame, cycles, emitted, wire, readsAfterRelease, yieldsAfterRelease, timeVars>>
    /\ UNCHANGED fixedVars

\* the device fails for good (unplugged): the handle stays, its reads give no frame
DeviceLost ==
    /\ procState = "running" /\ cap # NoCap /\ ~deviceLost
    /\ deviceLost' = TRUE
    /\ UNCHANGED <<discoveryVars, mainVars, capOpen, procState, pumpVars>>
    /\ UNCHANGED <<keepHistory, quality, framingVars>>

\* a history as it is after a step: extended where histories are kept
Log(old, new) == IF keepHistory THEN new ELSE old

RECURSIVE SumLen(_, _)
SumLen(f, S) == IF S = {} THEN 0 ELSE LET x == CHOOSE x \in S : TRUE IN Len(f[x]) + SumLen(f, S \ {x})

\* the cap.read() calls begun so far
ReadsBegun == SumLen(cycles, Consumers) + Cardinality({c \in Consumers : pc[c] = "reading"})

\* a lock on the handle that a generator keeps from its read to the end of its
\* iteration, the write and the sleeps included
MayEnterReadHeld(inside) ==
    inside = {} /\ \A c \in Consumers : pc[c] \notin {"encode", "yielded", "pace", "retry"}

\* whether a generator may enter cap.read() given the calls in flight on the handle:
\* the code takes no lock
MayEnterRead(inside) == TRUE

\* line 89, the call
ReadStart(c) ==
    /\ procState = "running" /\ pc[c] = "read"
    /\ keepHistory => ReadsBegun < MaxReads
    /\ MayEnterRead(InHandle)
    /\ pc' = [pc EXCEPT ![c] = "reading"]
    /\ raced' = [d \in Consumers |->
                    IF d = c THEN InHandle # {}
                    ELSE raced[d] \/ pc[d] = "reading"]
    /\ readsAfterRelease' = Log(readsAfterRelease, readsAfterRelease + (IF releaseCalls > 0 /\ ~capOpen THEN 1 ELSE 0))
    /\ UNCHANGED <<discoveryVars, mainVars, capOpen, procState>>
    /\ UNCHANGED <<frame, gone, nextFrame, cycles, emitted, wire, yieldsAfterRelease, timeVars>>
    /\ UNCHANGED fixedVars

\* what cap.read() may return, 0 for (False, None) and f > 0 for (True, frame f):
\* a released handle gives no frame, an open one the device's next frame or a
\* failure, and a call that overlapped another call on the handle anything
ReadResults(overlapped, open, nf) ==
    IF overlapped THEN 0..nf ELSE IF open THEN {0, nf} ELSE {0}

\* lines 90-93 without the continue: a failed read goes on to the encode
AfterReadNoContinue(success) == "encode"

\* lines 90-93: where the loop goes after the read
AfterRead(success) == IF success THEN "encode" ELSE "retry"

\* line 89, the return, and lines 90-93
ReadReturn(c) ==
    /\ procState = "running" /\ pc[c] = "reading"
    /\ \E f \in ReadResults(raced[c], capOpen /\ ~deviceLost, nextFrame) :
        /\ frame' = [frame EXCEPT ![c] = f]
        /\ nextFrame' = Log(nextFrame, IF f = nextFrame THEN nextFrame + 1 ELSE nextFrame)
        /\ cycles' = Log(cycles, [cycles EXCEPT ![c] =
                            Append(@, [read |-> f # 0, frame |-> f, enc |-> "none", q |-> NoCap])])
        /\ pc' = [pc EXCEPT ![c] = AfterRead(f # 0)]
    /\ raced' = [raced EXCEPT ![c] = FALSE]
    /\ UNCHANGED <<discoveryVars, mainVars, capOpen, procState>>
    /\ UNCHANGED <<gone, emitted, wire, readsAfterRelease, yieldsAfterRelease, timeVars>>
    /\ UNCHANGED fixedVars

\* lines 99-101 with a raise for the continue: a failed encode ends the generator
AfterEncodeRaises(ret) == IF ret THEN "yielded" ELSE "closed"

\* lines 99-106 without the yield: the chunk of a good encode is dropped
AfterEncodeDrops(ret) == "read"

\* lines 99-101 with the pause of lines 90-93: a failed encode sleeps like a failed read
AfterEncodePauses(ret) == IF ret THEN "yielded" ELSE "retry"

\* lines 99-101: where the loop goes after the encode
AfterEncode(ret) == IF ret THEN "yielded" ELSE "read"

\* the last iteration's record with the quality handed to the encoder and the
\* encode's outcome set
WithEnc(log, ret, q) ==
    [log EXCEPT ![Len(log)].enc = IF ret THEN "ok" ELSE "fail", ![Len(log)].q = q]

\* lines 96-106: cv2.imencode returns ret, then the yield of the chunk
EncodeReturns(c, ret) ==
    /\ procState = "running" /\ pc[c] = "encode"
    /\  /\ cycles' = Log(cycles, [cycles EXCEPT ![c] = WithEnc(@, ret, quality)])
        /\ pc' = [pc EXCEPT ![c] = AfterEncode(ret)]
        /\ IF AfterEncode(ret) = "yielded"
           THEN /\ emitted' = [emitted EXCEPT ![c] =
                                IF keepHistory THEN Append(@, Chunk(Jpeg(frame[c])))
                                ELSE <<Chunk(Jpeg(frame[c]))>>]
                /\ yieldTimes' = Log(yieldTimes, [yieldTimes EXCEPT ![c] = Append(@, asleep[c])])
                /\ yieldsAfterRelease' = Log(yieldsAfterRelease,
                        yieldsAfterRelease + (IF releaseCalls > 0 /\ ~capOpen THEN 1 ELSE 0))
           ELSE UNCHANGED <<emitted, yieldTimes, yieldsAfterRelease>>
    /\ UNCHANGED <<discoveryVars, mainVars, capOpen, procState>>
    /\ UNCHANGED <<frame, gone, raced, nextFrame, wire, readsAfterRelease, asleep>>
    /\ UNCHANGED fixedVars

\* lines 96-106, whatever the encoder returns
Encode(c) == \E ret \in BOOLEAN : EncodeReturns(c, ret)

\* one connection shared by every request's thread
SocketShared(c) == "a"

\* the connection a request's thread writes to: its own
SocketOf(c) == c

\* whether a write to a connection goes through: it does until the client has gone
Writable(clientGone) == ~clientGone

\* the server thread writes the yielded chunk to the connection and resumes the
\* generator, which goes on to line 108
Deliver(c) ==
    /\ procState = "running" /\ pc[c] = "yielded"
    /\ Writable(gone[c])
    /\ wire' = Log(wire, [wire EXCEPT ![SocketOf(c)] = @ \o emitted[c][Len(emitted[c])]])
    /\ pc' = [pc EXCEPT ![c] = "pace"]
    /\ UNCHANGED <<discoveryVars, mainVars, capOpen, procState>>
    /\ UNCHANGED <<frame, gone, raced, nextFrame, cycles, emitted, readsAfterRelease, yieldsAfterRelease, timeVars>>
    /\ UNCHANGED fixedVars

\* the client has gone, before the write or just now: the write fails and the
\* server closes the generator
WriteFails(c) ==
    /\ procState = "running" /\ pc[c] = "yielded"
    /\ gone' = [gone EXCEPT ![c] = TRUE]
    /\ pc' = [pc EXCEPT ![c] = "closed"]
    /\ UNCHANGED <<discoveryVars, mainVars, capOpen, procState>>
    /\ UNCHANGED <<frame, raced, nextFrame, cycles, emitted, wire, readsAfterRelease, yieldsAfterRelease, timeVars>>
    /\ UNCHANGED fixedVars

\* a sleep one tick short
SleptShort(secs) == secs - 1

\* the ticks that have passed when time.sleep(secs) returns: secs at the least
Slept(secs) == secs

\* line 108: time.sleep(interval)
PaceDone(c) ==
    /\ procState = "running" /\ pc[c] = "pace"
    /\ asleep' = Log(asleep, [asleep EXCEPT ![c] = @ + Slept(Interval)])
    /\ pc' = [pc EXCEPT ![c] = "read"]
    /\ UNCHANGED <<discoveryVars, mainVars, capOpen, procState>>
    /\ UNCHANGED <<frame, gone, raced, nextFrame, cycles, emitted, wire, readsAfterRelease, yieldsAfterRelease, yieldTimes>>
    /\ UNCHANGED fixedVars

RECURSIVE FailedRun(_)
\* the reads that have failed in a row at the end of a generator's log
FailedRun(log) ==
    IF log = <<>> \/ log[Len(log)].read THEN 0
    ELSE 1 + FailedRun(SubSeq(log, 1, Len(log) - 1))

\* a pause that grows with the failures in a row
RetryDelayBackoff(failures) == RetryPause * failures

\* line 92: the pause after a failed read, whatever the failures in a row
RetryDelay(failures) == RetryPause

\* line 92: time.sleep(0.1)
RetryDone(c) ==
    /\ procState = "running" /\ pc[c] = "retry"
    /\ asleep' = Log(asleep, [asleep EXCEPT ![c] = @ + Slept(RetryDelay(FailedRun(cycles[c])))])
    /\ pc' = [pc EXCEPT ![c] = "read"]
    /\ UNCHANGED <<discoveryVars, mainVars, capOpen, procState>>
    /\ UNCHANGED <<frame, gone, raced, nextFrame, cycles, emitted, wire, readsAfterRelease, yieldsAfterRelease, yieldTimes>>
    /\ UNCHANGED fixedVars

\* ------------------------------------------------------------ the framing

\* the bytes an encoder output may hold between its markers: a line break, the
\* two dashes and the boundary of line 116, and any other byte
ScanBytes == {"\r\n", "--frame", "z"}

\* the outputs of cv2.imencode(".jpg", ...): a JPEG is its first marker, any
\* bytes, its last marker
JpegBuffers == {<<"SOI">> \o sc \o <<"EOI">> : sc \in UNION {[1..n -> ScanBytes] : n \in 0..MaxScan}}

\* lines 103-106: the generator yields a frame's chunk, which the server writes
YieldChunk ==
    /\ stream \in {<<>>, Chunk(buffer)} /\ part = NoPart
    /\ stream' = stream \o Chunk(buffer)
    /\ UNCHANGED <<discoveryVars, mainVars, capOpen, procState, pumpVars>>
    /\ UNCHANGED <<keepHistory, quality, deviceLost, buffer, part>>

\* a header line's value
HeaderValue(line) == IF line = "Content-Type: image/jpeg" THEN "image/jpeg" ELSE "?"

RECURSIVE HeadersEnd(_, _)
\* where the empty line that ends a part's header lines is, from line i on
HeadersEnd(s, i) ==
    IF i > Len(s) THEN 0
    ELSE IF s[i] = "\r\n" THEN i
    ELSE HeadersEnd(s, i + 2)

RECURSIVE BodyEnd(_, _)
\* where the delimiter (a line break, two dashes, the boundary) that ends a
\* part's body is, from byte j on
BodyEnd(s, j) ==
    IF j + 1 > Len(s) THEN 0
    ELSE IF s[j] = "\r\n" /\ s[j + 1] = "--frame" THEN j
    ELSE BodyEnd(s, j + 1)

\* line 116, multipart/x-mixed-replace; boundary=frame: what a multipart reader
\* makes of the first part of a stream
FirstPart(s) ==
    LET h == HeadersEnd(s, 3)
        e == BodyEnd(s, h + 1)
    IN IF Len(s) < 2 \/ s[1] # "--frame" \/ s[2] # "\r\n" \/ h = 0 \/ e = 0
       THEN [type |-> "?", payload |-> <<>>]
       ELSE [type |-> IF h > 3 THEN HeaderValue(s[3]) ELSE "?", payload |-> SubSeq(s, h + 1, e - 1)]

\* the client reads the first part once the second chunk has come
ReadPart ==
    /\ stream = Chunk(buffer) \o Chunk(buffer) /\ part = NoPart
    /\ part' = FirstPart(stream)
    /\ UNCHANGED <<discoveryVars, mainVars, capOpen, procState, pumpVars>>
    /\ UNCHANGED <<keepHistory, quality, deviceLost, buffer, stream>>

\* ---------------------------------------------------------- specification

Next ==
    \/ Glob \/ ProbeOpen \/ ProbeFail \/ ProbeSucceed \/ ProbeNone
    \/ InstallHandlers \/ AppRun
    \/ SignalDefault \/ SignalHandled
    \/ CleanupReleaseCall \/ CleanupReleaseReturn \/ CleanupExit
    \/ Crash
    \/ \E c \in Consumers :
        \/ Connect(c) \/ ReadStart(c) \/ ReadReturn(c) \/ Encode(c)
        \/ Deliver(c) \/ WriteFails(c) \/ PaceDone(c) \/ RetryDone(c)

\* the whole program, on a machine with at most one device node
Spec == Init /\ [][Next]_vars

\* the program from its start until it serves, on a machine with any device nodes
NextFind ==
    \/ Glob \/ ProbeOpen \/ ProbeFail \/ ProbeSucceed \/ ProbeNone
    \/ InstallHandlers \/ AppRun
    \/ SignalDefault
    \/ \E c \in Consumers : Connect(c)

SpecFind == InitFind /\ [][NextFind]_vars

\* values of --quality a command line may give
ArgQualities == {0, DefaultQuality, 101}

\* lines 36-41 and 48: what parse_args() makes of --quality: type=int and no
\* choices or range, so every integer is taken
QualityAccepted(q) == q \in Int

InitArgs == InitOn({DevPool[1]}, {q \in ArgQualities : QualityAccepted(q)}, TRUE) /\ NoFraming

\* the whole program, started with any --quality
SpecArgs == InitArgs /\ [][Next]_vars

InitFraming ==
    /\ InitOn({}, {DefaultQuality}, TRUE)
    /\ buffer \in JpegBuffers /\ stream = <<>> /\ part = NoPart

NextFraming == YieldChunk \/ ReadPart

\* the framing alone: any encoder output, yielded twice and read by the client
SpecFraming == InitFraming /\ [][NextFraming]_vars

\* a step of the thread that serves a request
PumpStep(c) ==
    \/ ReadStart(c) \/ ReadReturn(c) \/ Encode(c)
    \/ Deliver(c) \/ WriteFails(c) \/ PaceDone(c) \/ RetryDone(c)

\* a step of the main thread
MainStep ==
    \/ Glob \/ ProbeOpen \/ ProbeFail \/ ProbeSucceed \/ ProbeNone
    \/ InstallHandlers \/ AppRun
    \/ CleanupReleaseCall \/ CleanupReleaseReturn \/ CleanupExit

InitLive == InitOn({DevPool[1]}, {DefaultQuality}, FALSE) /\ NoFraming

NextLive == Next \/ DeviceLost \/ \E c \in Consumers : ClientGone(c)

\* the whole program over unbounded time, with a device that may fail for good
\* and clients that leave at any time: a thread that can take a step takes one in the end, while signals,
\* clients and the device do as they please
SpecLive ==
    /\ InitLive /\ [][NextLive]_vars
    /\ WF_vars(MainStep)
    /\ \A c \in Consumers : WF_vars(PumpStep(c))

\* ------------------------------------------------------------ properties

RECURSIVE Flatten(_)
\* the bytes of a sequence of chunks, one after the other
Flatten(chunks) == IF chunks = <<>> THEN <<>> ELSE Head(chunks) \o Flatten(Tail(chunks))

\* the iterations of a generator in which the read and the encode both succeeded
GoodCycles(c) == SelectSeq(cycles[c], LAMBDA r : r.read /\ r.enc = "ok")

\* whether the last finished step of a generator's loop was a failure
LastFailed(c) ==
    /\ cycles[c] # <<>>
    /\ LET r == cycles[c][Len(cycles[c])] IN ~r.read \/ r.enc = "fail"

\* C1: the chunks a generator has yielded are exactly, one for one and in the
\* order of the reads, the chunks of the iterations whose read and encode both
\* succeeded; an iteration whose read or encode failed yields nothing.
C1_ChunksAreGoodCycles ==
    \A c \in Consumers :
        emitted[c] = [i \in 1..Len(GoodCycles(c)) |-> Chunk(Jpeg(GoodCycles(c)[i].frame))]

\* a generator whose first read failed and whose second iteration yielded a chunk
C1_Witness ==
    \E c \in Consumers :
        /\ Len(cycles[c]) = 2 /\ ~cycles[c][1].read
        /\ cycles[c][2].read /\ cycles[c][2].enc = "ok"
        /\ Len(emitted[c]) = 1

\* C2: no two generators are inside cap.read() at the same time.
C2_ReadsMutuallyExclusive == Cardinality({c \in Consumers : pc[c] = "reading"}) <= 1

\* C3: cap.release() is called on the capture handle at most once, and exactly
\* once when the process has exited through cleanup.
C3_ReleasedExactlyOnce ==
    /\ releaseCalls <= 1
    /\ procState = "exit0" => releaseCalls = 1

\* C4: a process that handled a termination signal while a cap.read() was in
\* flight ends, when it ends, with status 0.
C4_ExitsWithSuccess ==
    (sigInRead /\ procState # "running") => procState = "exit0"

\* C5: once cap.release() has returned, no generator calls cap.read() and no
\* generator yields a chunk.
C5_NoCycleAfterRelease == readsAfterRelease = 0 /\ yieldsAfterRelease = 0

\* C6: the devices are opened in the lexicographic order of their paths with
\* none left out; the session returned is that of the first device that opens;
\* the buffer depth is set on that session and on no other; no device after it
\* is opened.
C6_FirstSuccessWins ==
    /\ \A i, j \in 1..Len(probed) : i < j => PathLess(probed[i], probed[j])
    /\ \A d \in fsDevices : \A i \in 1..Len(probed) :
          PathLess(d, probed[i]) => \E j \in 1..(i - 1) : probed[j] = d
    /\ bufferSet \subseteq {<<cap, BufferSize>>}
    /\ cap # NoCap =>
          /\ cap \in openable
          /\ \A d \in fsDevices : PathLess(d, cap) => d \notin openable
          /\ probed[Len(probed)] = cap
          /\ bufferSet = {<<cap, BufferSize>>}
    /\ \A i \in 1..Len(probed) : probed[i] \in openable => i = Len(probed)

\* discovery went past a device that did not open and returned the next one,
\* a third device that would open was never opened, and the server is up
C6_Witness ==
    /\ Len(probed) = 2 /\ probed[1] \notin openable
    /\ cap = probed[2] /\ listening
    /\ \E d \in openable : PathLess(cap, d)

\* C7: when no device opens, discovery ends in the device-not-found error: no
\* session is bound to cap, every handle that was constructed is released, the
\* process ends with an error status, the listener is never bound and no
\* request is ever served.
C7_NoDeviceAborts ==
    /\ openable = {} =>
          /\ cap = NoCap /\ ~capOpen /\ bufferSet = {}
          /\ ~listening
          /\ \A c \in Consumers : pc[c] = "idle"
          /\ mainPc \in {"glob", "probe", "aborted"}
          /\ (mainPc = "aborted" => procState = "exit1")
          /\ (probing = NoCap => probeReleased = {probed[i] : i \in 1..Len(probed)})
    /\ mainPc = "aborted" => openable = {} /\ Len(probed) = Len(devs)
    /\ listening => cap # NoCap

\* two devices exist, neither opens, and discovery has failed
C7_Witness == mainPc = "aborted" /\ Len(probed) = 2 /\ procState = "exit1" /\ ~listening

\* C8: between two consecutive chunks of one consumer its generator sleeps for
\* the pacing interval at the least, so that any chunks i..j of a consumer span
\* at least j - i intervals: N intervals hold at most N + 1 chunks.
C8_PacedChunks ==
    \A c \in Consumers : \A i, j \in 1..Len(yieldTimes[c]) :
        i < j => /\ yieldTimes[c][j] - yieldTimes[c][i] >= (j - i) * Interval
                 /\ j - i + 1 <= (yieldTimes[c][j] - yieldTimes[c][i]) \div Interval + 1

\* a consumer that has been yielded two chunks
C8_Witness == \E c \in Consumers : Len(yieldTimes[c]) = 2 /\ pc[c] = "pace"

\* C9: the bytes written to a consumer's connection are whole chunks of that
\* consumer's own generator, in the order it yielded them, and nothing else.
C9_OwnWholeChunks ==
    \A c \in Consumers :
        \E k \in 0..Len(emitted[c]) :
            /\ k >= Len(emitted[c]) - 1
            /\ wire[c] = Flatten(SubSeq(emitted[c], 1, k))

\* both consumers have received a chunk, each its own
C9_Witness ==
    \E c, d \in Consumers :
        /\ c # d
        /\ wire[c] = Flatten(emitted[c]) /\ Len(emitted[c]) = 1
        /\ wire[d] = Flatten(emitted[d]) /\ Len(emitted[d]) = 1
        /\ wire[c] # wire[d]

\* C10: a generator whose last read or encode failed has not ended and nothing
\* but chunks has reached its consumer: it is pausing before, about to make or
\* making the next read.
C10_FailuresAbsorbed ==
    \A c \in Consumers :
        LastFailed(c) => pc[c] \in {"retry", "read", "reading"}

\* a generator after a failed read followed by a failed encode, about to read again
C10_Witness ==
    \E c \in Consumers :
        /\ Len(cycles[c]) = 2 /\ pc[c] = "read"
        /\ ~cycles[c][1].read /\ cycles[c][2].enc = "fail"

\* C11: once a consumer's client has closed the connection, the consumer's
\* generator stops in the end (or the process does), whatever it was doing when
\* the client left.
C11_DisconnectStopsPump ==
    \A c \in Consumers : gone[c] ~> (pc[c] = "closed" \/ procState # "running")

\* C12: a chunk is the boundary line, the Content-Type header line, an empty
\* line, the encoder's output and a line break, and a multipart reader gets the
\* type image/jpeg and the encoder's output, byte for byte, back from it.
C12_ChunkRoundTrips ==
    /\ stream # <<>> =>
            SubSeq(stream, 1, Len(buffer) + 6) =
                <<"--frame", "\r\n", "Content-Type: image/jpeg", "\r\n", "\r\n">> \o buffer \o <<"\r\n">>
    /\ part # NoPart => part = [type |-> "image/jpeg", payload |-> buffer]

\* C13: a --quality outside 1..100 is turned down before the device is opened,
\* and no call of the encoder is given a quality outside 1..100.
C13_QualityInRange ==
    /\ quality \notin 1..100 => probed = <<>>
    /\ \A c \in Consumers : \A i \in 1..Len(cycles[c]) :
            cycles[c][i].enc # "none" => cycles[c][i].q \in 1..100

\* the last iteration a generator has logged
LastCycle(c) == cycles[c][Len(cycles[c])]

\* the pauses of line 92 a generator has finished: one for each failed read
RetriesDone(c) ==
    Len(SelectSeq(cycles[c], LAMBDA r : ~r.read)) - (IF pc[c] = "retry" THEN 1 ELSE 0)

\* the sleeps of line 108 a generator has finished: one for each chunk written
PacesDone(c) ==
    Len(emitted[c]) - (IF pc[c] \in {"yielded", "pace", "closed"} THEN 1 ELSE 0)

\* the time a generator has slept if each failed read costs it the pause of line
\* 92 and each chunk written the interval of line 108, and nothing else anything
SleepDue(c) == RetryPause * RetriesDone(c) + Interval * PacesDone(c)

\* C14: a failed read is followed by the pause of 0.1 s, the same however many
\* reads have failed in a row, and by no pacing sleep and no chunk; the
\* generator's next step after the pause is another read.
C14_FixedPauseThenRead ==
    \A c \in Consumers :
        /\ asleep[c] = SleepDue(c)
        /\ pc[c] = "retry" => cycles[c] # <<>> /\ ~LastCycle(c).read
        /\ (cycles[c] # <<>> /\ ~LastCycle(c).read) =>
                /\ pc[c] \in {"retry", "read", "reading"}
                /\ LastCycle(c).enc = "none"

\* a generator back at the read after two failed reads in a row and their pauses
C14_Witness ==
    \E c \in Consumers :
        /\ Len(cycles[c]) = 2 /\ ~cycles[c][1].read /\ ~cycles[c][2].read
        /\ pc[c] = "read" /\ asleep[c] = 2 * RetryPause

\* C15: a failed encode is followed by no chunk and by no sleep of either kind;
\* the generator's next step is a read, and the encoder is only ever given the
\* frame of the read just before it, so a frame whose encode failed is not
\* encoded again.
C15_FailedEncodeThenRead ==
    \A c \in Consumers :
        /\ (cycles[c] # <<>> /\ LastCycle(c).enc = "fail") =>
                pc[c] \in {"read", "reading"} /\ asleep[c] = SleepDue(c)
        /\ pc[c] = "encode" =>
                /\ cycles[c] # <<>> /\ LastCycle(c).read /\ LastCycle(c).enc = "none"
                /\ frame[c] = LastCycle(c).frame
        /\ Len(emitted[c]) = Len(SelectSeq(cycles[c], LAMBDA r : r.enc = "ok"))

\* a generator that has read a new frame after a failed encode, without a sleep
C15_Witness ==
    \E c \in Consumers :
        /\ Len(cycles[c]) = 2 /\ cycles[c][1].enc = "fail"
        /\ cycles[c][2].read /\ cycles[c][2].frame # cycles[c][1].frame
        /\ pc[c] = "encode" /\ asleep[c] = 0

\* C16: a generator that waits for its chunk to be written, or sleeps its
\* pacing interval or its pause after a failed read, keeps no other generator
\* from the device: whenever no call on the handle is in flight, a generator
\* that is at its read can enter it.
C16_WaitersHoldNoDevice ==
    \A d \in Consumers :
        (procState = "running" /\ pc[d] = "read" /\ ReadsBegun < MaxReads /\ InHandle = {})
            => ENABLED ReadStart(d)

\* a generator at its read while the other waits for its chunk to be written
C16_Witness ==
    \E c, d \in Consumers :
        /\ c # d /\ procState = "running" /\ pc[d] = "read" /\ ReadsBegun < MaxReads
        /\ InHandle = {} /\ pc[c] = "yielded"

\* the nodes whose VideoCapture object has been made and not released
HandlesHeld ==
    ({probed[i] : i \in 1..Len(probed)} \ probeReleased)
        \ (IF cap # NoCap /\ ~capOpen THEN {cap} ELSE {})

\* C17: at most one capture handle is made and not released at any time: the
\* handle of a failed open is released before the next node is opened, the nodes
\* are opened once each in the order of the listing, and once discovery is over
\* (the server runs, consumers connect) the only handle is the one bound to cap.
C17_OneHandleAtMost ==
    /\ Cardinality(HandlesHeld) <= 1
    /\ Len(probed) <= Len(devs) /\ probed = SubSeq(devs, 1, Len(probed))
    /\ mainPc \notin {"glob", "probe"} => probing = NoCap /\ HandlesHeld \subseteq {cap}

\* the second node opened after the open of the first failed and its handle was
\* released, and a consumer connected afterwards
C17_Witness ==
    /\ Len(probed) = 2 /\ probed[1] \in probeReleased /\ cap = probed[2]
    /\ \E c \in Consumers : pc[c] = "read"

\* C18: once the device has failed for good, a generator that is streaming
\* comes to an end (or the process does) instead of retrying for ever, and no
\* device is opened again.
C18_LostDeviceEndsPump ==
    /\ \A c \in Consumers :
            (deviceLost /\ pc[c] \notin {"idle", "closed"})
                ~> (pc[c] = "closed" \/ procState # "running")
    /\ [][deviceLost => probed' = probed]_vars

\* the frames of the iterations, of any generator, that yielded a chunk
YieldedFrames == [c \in Consumers |-> [i \in 1..Len(GoodCycles(c)) |-> GoodCycles(c)[i].frame]]

\* the chunks a generator has yielded that have not been written: the one it
\* waits on, or the one whose write failed
Undelivered(c) == IF pc[c] \in {"yielded", "closed"} THEN 1 ELSE 0

\* C19: a chunk carries the encoding of the frame its generator read last, in
\* the same iteration; no frame of the device is in two chunks, of one consumer
\* or of two; and a generator has at most one chunk yielded and not yet written,
\* and does not read while it has one.
C19_OneFrameOneChunk ==
    /\ \A c \in Consumers :
            /\ Len(emitted[c]) = Len(YieldedFrames[c])
            /\ pc[c] = "yielded" =>
                    /\ LastCycle(c).frame = frame[c]
                    /\ emitted[c][Len(emitted[c])] = Chunk(Jpeg(frame[c]))
            /\ Len(wire[c]) = (Len(emitted[c]) - Undelivered(c)) * Len(Chunk(Jpeg(0)))
    /\ \A c, d \in Consumers :
            \A i \in 1..Len(YieldedFrames[c]) : \A j \in 1..Len(YieldedFrames[d]) :
                (c # d \/ i # j) => YieldedFrames[c][i] # YieldedFrames[d][j]

\* C20: with consumers streaming side by side, a consumer whose client stays
\* connected and takes what is written, in a process that gets no signal, is
\* written chunks again and again if its reads succeed again and again and its
\* encodes succeed again and again.
C20_ChunksKeepComing ==
    \A c \in Consumers :
        ( /\ [](~gone[c]) /\ [](signals = 0)
          /\ []<><<ReadReturn(c) /\ frame'[c] # 0>>_vars
          /\ []<><<EncodeReturns(c, TRUE)>>_vars )
            => []<><<Deliver(c)>>_vars

\* a consumer that has just been written a chunk while the other one, streaming
\* too, pauses after a failed read
C20_Witness ==
    \E c, d \in Consumers :
        /\ c # d /\ ~keepHistory /\ procState = "running" /\ signals = 0
        /\ pc[c] = "pace" /\ ~gone[c] /\ pc[d] = "retry"

====
